---- MODULE Spec2Model ----
(***************************************************************************)
(* State-machine model of streamlit_app.py: the session state of the data  *)
(* chat page, one action per user interaction.  Every interaction makes    *)
(* the runtime execute the whole script once (left column, then right      *)
(* column); st.rerun() aborts the pass and executes the script again.      *)
(***************************************************************************)
EXTENDS Integers, Sequences, FiniteSets, TLC

VARIABLES
    current_data,           \* st.session_state.current_data: None or a DataFrame
    data_source_visible,    \* st.session_state.data_source_visible
    chat_history,           \* st.session_state.chat_history
    chart_history,          \* st.session_state.chart_history
    selected_tab,           \* st.session_state.selected_tab
    mode_selection,         \* widget "mode_selection" (line 165)
    data_source_selection,  \* widget "data_source_selection" (line 372)
    uploaded_file,          \* widget st.file_uploader (line 376): None or a file
    event,                  \* the user interaction that caused the last script run
    http,                   \* HTTP exchanges made while handling that interaction
    errors                  \* st.error / st.warning messages shown by the last pass

vars == <<current_data, data_source_visible, chat_history, chart_history,
          selected_tab, mode_selection, data_source_selection, uploaded_file,
          event, http, errors>>

-----------------------------------------------------------------------------
(* Bounds of the model *)

MaxTurns == 2        \* chat turns kept in the interleaved specification
MaxCharts == 2       \* chart entries kept in the interleaved specification
MaxLongTurns == 11   \* chat turns kept in the conversation-only specification

-----------------------------------------------------------------------------
(* Python values *)

\* None is the empty option, Some(x) a present value.
None == <<>>
Some(x) == <<x>>
Get(o) == o[1]

\* Text typed by the user is a sequence of characters.
Whitespace == {" ", "\t", "\n"}

RECURSIVE LStrip(_)
LStrip(s) ==
    IF s # <<>> /\ Head(s) \in Whitespace THEN LStrip(Tail(s)) ELSE s

RECURSIVE RStrip(_)
RStrip(s) ==
    IF s # <<>> /\ s[Len(s)] \in Whitespace
    THEN RStrip(SubSeq(s, 1, Len(s) - 1))
    ELSE s

\* str.strip()
Strip(s) == RStrip(LStrip(s))

\* Truth value of a str typed by the user (a sequence of characters)
Truthy(s) == s # <<>>

-----------------------------------------------------------------------------
(* DataFrames.  A cell is a string naming a scalar:                        *)
(*   "0" "1" "10" "-5"   numbers          "nan" "inf" "-inf"  non-finite   *)
(*   "null"              Python None      "nat"               pandas NaT   *)
(*   "d:..."             a datetime       "s:..."             a str        *)

Numbers == {"0", "1", "10", "-5"}
NonFinite == {"nan", "inf", "-inf"}
Missing == {"nan", "null", "nat", "NA"}
Datetimes == {"d:2024-01-01"}
Texts == {"s:x", "s:y", "s:nan", "s:None", "s:1", "s:10", "s:-5", "s:0",
          "s:inf", "s:-inf", "s:NaT", "s:2024-01-01 00:00:00", "s:failed"}

\* str(value), as Series.astype(str) applies it to each cell
Str(c) ==
    CASE c \in Texts -> c
      [] c = "nan" -> "s:nan"
      [] c = "null" -> "s:None"
      [] c = "nat" -> "s:NaT"
      [] c = "inf" -> "s:inf"
      [] c = "-inf" -> "s:-inf"
      [] c = "0" -> "s:0"
      [] c = "1" -> "s:1"
      [] c = "10" -> "s:10"
      [] c = "-5" -> "s:-5"
      [] OTHER -> "s:x"

\* Series.dt.strftime('%Y-%m-%d %H:%M:%S'): NaT becomes NaN
Strftime(c) ==
    IF c = "d:2024-01-01" THEN "s:2024-01-01 00:00:00" ELSE "nan"

Col(name, dtype, cells) == [name |-> name, dtype |-> dtype, cells |-> cells]
Frame(nrows, cols) == [nrows |-> nrows, cols |-> cols]

ColumnNames(df) == {df.cols[i].name : i \in 1..Len(df.cols)}
CellsOf(df) == {df.cols[i].cells[j] : i \in 1..Len(df.cols), j \in 1..df.nrows}

\* DataFrame.empty: some axis has length 0
IsEmpty(df) == df.nrows = 0 \/ Len(df.cols) = 0

\* pd.DataFrame(list of records).  A record is a sequence of <<key, value>>
\* pairs (a JSON object); the columns are the keys in order of first
\* appearance, a key a record lacks gives NaN, and a column holding numbers
\* is float64, where None is NaN as well.
RecordKeys(rec) == [i \in 1..Len(rec) |-> rec[i][1]]

RECURSIVE AddKeys(_, _)
AddKeys(keys, new) ==
    IF new = <<>> THEN keys
    ELSE IF \E i \in 1..Len(keys) : keys[i] = Head(new)
         THEN AddKeys(keys, Tail(new))
         ELSE AddKeys(Append(keys, Head(new)), Tail(new))

RECURSIVE AllKeys(_)
AllKeys(records) ==
    IF records = <<>> THEN <<>>
    ELSE AddKeys(RecordKeys(Head(records)),
                 AllKeys(Tail(records)))

RecordGet(rec, key) ==
    IF \E i \in 1..Len(rec) : rec[i][1] = key
    THEN rec[CHOOSE i \in 1..Len(rec) : rec[i][1] = key][2]
    ELSE "nan"

InferColumn(name, cells) ==
    LET vals == {cells[i] : i \in 1..Len(cells)}
        numeric == /\ vals \subseteq (Numbers \cup NonFinite \cup {"null"})
                   /\ vals \cap (Numbers \cup NonFinite) # {}
    IN IF numeric
       THEN Col(name, "float64",
                [i \in 1..Len(cells) |-> IF cells[i] = "null" THEN "nan" ELSE cells[i]])
       ELSE Col(name, "object", cells)

FrameOf(records, keys) ==
    Frame(Len(records),
          [k \in 1..Len(keys) |->
              InferColumn(keys[k],
                  [r \in 1..Len(records) |-> RecordGet(records[r], keys[k])])])

DataFrame(records) == FrameOf(records, AllKeys(records))

-----------------------------------------------------------------------------
(* process_user_data (lines 36-64) *)

\* An uploaded file: its name as <<stem, extension>> and what the pandas reader
\* makes of its bytes: None when the reader raises, else the parsed DataFrame.
File(stem, ext, parsed) == [name |-> <<stem, ext>>, parsed |-> parsed]
EndsWith(name, suffix) == name[2] = suffix

\* lines 46-47: datetime columns to text
DatetimeToString(df) ==
    [df EXCEPT !.cols = [i \in 1..Len(df.cols) |->
        IF df.cols[i].dtype = "datetime64"
        THEN Col(df.cols[i].name, "object",
                 [j \in 1..Len(df.cols[i].cells) |-> Strftime(df.cols[i].cells[j])])
        ELSE df.cols[i]]]

\* lines 53-55: object columns to str
ObjectToString(df) ==
    [df EXCEPT !.cols = [i \in 1..Len(df.cols) |->
        IF df.cols[i].dtype = "object"
        THEN Col(df.cols[i].name, "object",
                 [j \in 1..Len(df.cols[i].cells) |-> Str(df.cols[i].cells[j])])
        ELSE df.cols[i]]]

\* line 58: df.replace([inf, -inf], pd.NA)
ReplaceInf(df) ==
    [df EXCEPT !.cols = [i \in 1..Len(df.cols) |->
        [df.cols[i] EXCEPT !.cells = [j \in 1..Len(df.cols[i].cells) |->
            IF df.cols[i].cells[j] \in {"inf", "-inf"} THEN "NA"
            ELSE df.cols[i].cells[j]]]]]

\* line 59: df.fillna(0)
FillNa(df) ==
    [df EXCEPT !.cols = [i \in 1..Len(df.cols) |->
        [df.cols[i] EXCEPT !.cells = [j \in 1..Len(df.cols[i].cells) |->
            IF df.cols[i].cells[j] \in Missing THEN "0"
            ELSE df.cols[i].cells[j]]]]]

\* lines 52-59
Sanitize(df) == FillNa(ReplaceInf(ObjectToString(df)))

\* What an ingestion function returns, with the messages it showed
Returned(df, errs) == [df |-> df, errors |-> errs]

ProcessAnything(uploaded) ==
    IF uploaded.parsed = None
    THEN Returned(Some(Frame(0, <<>>)), <<>>)
    ELSE Returned(Some(Sanitize(Get(uploaded.parsed))), <<>>)

process_user_data(uploaded) ==
    IF EndsWith(uploaded.name, ".csv")
    THEN IF uploaded.parsed = None
         THEN Returned(None, <<"Failed to process the file">>)
         ELSE Returned(Some(Sanitize(Get(uploaded.parsed))), <<>>)
    ELSE IF EndsWith(uploaded.name, ".xlsx")
    THEN IF uploaded.parsed = None
         THEN Returned(None, <<"Failed to process the file">>)
         ELSE Returned(Some(Sanitize(DatetimeToString(Get(uploaded.parsed)))), <<>>)
    ELSE Returned(None, <<"Unsupported file format">>)

-----------------------------------------------------------------------------
(* HTTP.  A response: exc is a transport exception of requests; otherwise a  *)
(* status and a body.  json = FALSE is a body response.json() raises on.     *)
(* The JSON fields are options (None: the key is absent); "error" is one of  *)
(* "absent", "null", "" and a message.                                       *)

Response(exc, status, json, answer, detail, data, df_final, error) ==
    [exc |-> exc, status |-> status, json |-> json, answer |-> answer,
     detail |-> detail, data |-> data, df_final |-> df_final, error |-> error]

Exchange(method, path, question, chart_type, data, history, resp) ==
    [method |-> method, path |-> path, question |-> question,
     chart_type |-> chart_type, data |-> data, history |-> history, resp |-> resp]

\* body.get("error"): an absent key reads as None
GetError(resp) == IF resp.error = "absent" THEN "null" ELSE resp.error

\* truth value of body.get("error"): None and "" are false
ErrorSet(resp) == GetError(resp) \notin {"null", ""}

-----------------------------------------------------------------------------
(* fetch_airtable_data (lines 66-80) *)

GetRoot(resp) == Exchange("GET", "/", <<>>, "", None, <<>>, resp)

fetch_airtable_data(resp) ==
    IF resp.exc THEN Returned(None, <<"Error fetching Airtable data">>)
    ELSE IF resp.status = 200
    THEN IF ~resp.json \/ resp.data = None
         THEN Returned(None, <<"Error fetching Airtable data">>)
         ELSE Returned(Some(DataFrame(Get(resp.data))), <<>>)
    ELSE Returned(None, <<"Failed to fetch data from Airtable">>)

-----------------------------------------------------------------------------
(* Session state and the handlers of the script *)

Session(data, visible, chat, charts, tab) ==
    [current_data |-> data, data_source_visible |-> visible,
     chat_history |-> chat, chart_history |-> charts, selected_tab |-> tab]

\* What a handler leaves: the session, the HTTP exchanges it made, the messages
\* it showed, whether it called st.rerun(), whether an exception left the script.
Result(s, exchanges, errs, rerun, raised) ==
    [s |-> s, http |-> exchanges, errors |-> errs, rerun |-> rerun, raised |-> raised]

\* An interaction: the widget acted on, the text submitted with a form, the
\* file put into the uploader
Event(kind, text, file) == [kind |-> kind, text |-> text, file |-> file]
NoEvent == Event("rerun", <<>>, None)

\* lines 82-90
clear_data(s) ==
    Session(None, TRUE, <<>>, <<>>, "Conversation")

StoreKeepsPicker(s, df) ==
    [s EXCEPT !.current_data = Some(df), !.selected_tab = "Conversation"]

\* lines 381-383 and 390-392
StoreData(s, df) ==
    [s EXCEPT !.current_data = Some(df), !.data_source_visible = FALSE,
              !.selected_tab = "Conversation"]

Turn(role, content) == [role |-> role, content |-> content]

HistoryLimit == 10

LimitedFirst(history) ==
    SubSeq(history, 1, IF Len(history) < HistoryLimit THEN Len(history) ELSE HistoryLimit)

\* line 210: chat_history[-10:]
LimitedHistory(history) ==
    IF Len(history) <= HistoryLimit THEN history
    ELSE SubSeq(history, Len(history) - HistoryLimit + 1, Len(history))

FallbackAnswer == <<"I couldn't find the answer. Try rephrasing or asking a different question.">>

QuestionIsSet(q) == Truthy(q)

\* line 203: user_question.strip()
QuestionGiven(q) == Truthy(Strip(q))

NoOp(s) == Result(s, <<>>, <<>>, FALSE, FALSE)

PostWithRetry(exchange) ==
    IF exchange.resp.exc THEN <<exchange, exchange>> ELSE <<exchange>>

\* requests.post (lines 211, 291) is called once: one exchange
Post(exchange) == <<exchange>>

QueryWithoutData(s, q, resp) ==
    Exchange("POST", "/userdata_query/", q, "", None,
             LimitedHistory(s.chat_history), resp)

\* lines 211-218: one requests.post with the question, the dataset and the
\* limited history
QueryRequest(s, q, resp) ==
    Exchange("POST", "/userdata_query/", q, "", s.current_data,
             LimitedHistory(s.chat_history), resp)

Answered(resp) ==
    Turn("assistant", IF resp.answer = None THEN FallbackAnswer ELSE Get(resp.answer))

\* lines 209-228: the request and what the response does to the history
ChatReply(s, sent, resp) ==
    IF resp.exc \/ ~resp.json
    THEN Result(s, Post(sent), <<"An error occurred">>, FALSE, FALSE)
    ELSE IF resp.status = 200
    THEN Result([s EXCEPT !.chat_history = Append(s.chat_history, Answered(resp))],
                Post(sent), <<>>, FALSE, FALSE)
    ELSE Result(s, Post(sent), <<"Error: detail">>, FALSE, FALSE)

Asking(s, q) ==
    [s EXCEPT !.chat_history = Append(s.chat_history, Turn("user", q))]

ChatAsked(s, q, resp) == ChatReply(s, QueryRequest(s, q, resp), resp)

\* lines 203-228, reached with submit_button true
ChatHandler(s, q, resp) ==
    IF QuestionGiven(q) THEN ChatAsked(Asking(s, q), q, resp) ELSE NoOp(s)

ChartEntry(instruction, ctype, df) ==
    [instruction |-> instruction, chart_type |-> ctype, df_final |-> df]

\* lines 284-291
ChartRequest(s, instruction, ctype, resp) ==
    Exchange("POST", "/generate_chart/", instruction, ctype, s.current_data, <<>>, resp)

ChartStoredDespiteError(resp) ==
    ~resp.exc /\ resp.json /\ resp.status = 200

\* lines 292-296: the response is stored
ChartStored(resp) ==
    ~resp.exc /\ resp.json /\ resp.status = 200 /\ ~ErrorSet(resp)

\* lines 294, 299-304
NewEntry(instruction, ctype, resp) ==
    ChartEntry(instruction, ctype,
               DataFrame(IF resp.df_final = None THEN <<>> ELSE Get(resp.df_final)))

\* lines 290-309
ChartReply(s, sent, instruction, ctype, resp) ==
    IF resp.exc \/ ~resp.json
    THEN Result(s, Post(sent), <<"I'm sorry, I couldn't process your request">>, FALSE, FALSE)
    ELSE IF ChartStored(resp)
    THEN Result([s EXCEPT !.chart_history =
                     Append(s.chart_history, NewEntry(instruction, ctype, resp))],
                Post(sent), <<>>, FALSE, FALSE)
    ELSE IF resp.status = 200
    THEN Result(s, Post(sent), <<"error">>, FALSE, FALSE)
    ELSE Result(s, Post(sent), <<"Error: detail">>, FALSE, FALSE)

\* lines 282-309, reached with gen_btn true
ChartHandler(s, instruction, ctype, resp) ==
    IF QuestionGiven(instruction)
    THEN ChartReply(s, ChartRequest(s, instruction, ctype, resp), instruction, ctype, resp)
    ELSE NoOp(s)

-----------------------------------------------------------------------------
(* Chart rendering (lines 312-362) *)

\* Series.astype(float) raises ValueError on text that is no number
FloatTexts == {"s:1", "s:10", "s:-5", "s:0", "s:nan", "s:inf", "s:-inf"}
AsFloatRaises(c) == c \in (Texts \ FloatTexts) \cup Datetimes
Negative(c) == c \in {"-5", "-inf", "s:-5", "s:-inf"}

\* lines 341-358
RenderPie(df) ==
    IF Len(df.cols) < 2 THEN "raise IndexError"
    ELSE IF \E j \in 1..df.nrows : AsFloatRaises(df.cols[2].cells[j])
    THEN "raise ValueError"
    ELSE IF \E j \in 1..df.nrows : Negative(df.cols[2].cells[j])
    THEN "error: Cannot plot negative values"
    ELSE "ax.pie"

\* What the loop body shows for one entry, or the exception that leaves it
RenderEntry(entry) ==
    IF IsEmpty(entry.df_final) THEN "error: No data found"
    ELSE IF "Error" \in ColumnNames(entry.df_final) THEN "error: Error column"
    ELSE IF entry.chart_type = "Bar" THEN "st.bar_chart"
    ELSE IF entry.chart_type = "Area" THEN "st.area_chart"
    ELSE IF entry.chart_type = "Line" THEN "st.line_chart"
    ELSE IF entry.chart_type = "Scatter" THEN "st.scatter_chart"
    ELSE IF entry.chart_type = "Pie" THEN RenderPie(entry.df_final)
    ELSE "st.dataframe"

Raises(shown) == shown \in {"raise IndexError", "raise ValueError"}

\* The loop over reversed(chart_history): what is shown for each entry, newest
\* first; an exception leaves the loop and the script.
RECURSIVE RenderFrom(_, _)
RenderFrom(history, i) ==
    IF i = 0 THEN <<>>
    ELSE IF Raises(RenderEntry(history[i])) THEN <<RenderEntry(history[i])>>
    ELSE <<RenderEntry(history[i])>> \o RenderFrom(history, i - 1)

RenderCharts(history) == RenderFrom(history, Len(history))

RenderRaised(history) ==
    \E i \in 1..Len(history) : Raises(RenderEntry(history[i]))

-----------------------------------------------------------------------------
(* One pass of the script *)

Widgets(mode, source, file) ==
    [mode_selection |-> mode, data_source_selection |-> source, uploaded_file |-> file]

\* lines 266-268
ClearChatButton(r, ev) ==
    IF Len(r.s.chat_history) > 0 /\ ev.kind = "clear_chat"
    THEN Result([r.s EXCEPT !.chat_history = <<>>], r.http, r.errors, TRUE, FALSE)
    ELSE r

\* lines 311-362
ChartsShown(r) ==
    Result(r.s, r.http, r.errors, FALSE, RenderRaised(r.s.chart_history))

\* lines 169-362, after line 166
Forms(s, ev, ctype, resp) ==
    IF s.current_data = None THEN NoOp(s)
    ELSE IF s.selected_tab = "Conversation"
    THEN ClearChatButton(IF ev.kind = "submit_chat" THEN ChatHandler(s, ev.text, resp)
                         ELSE NoOp(s), ev)
    ELSE ChartsShown(IF ev.kind = "submit_chart" THEN ChartHandler(s, ev.text, ctype, resp)
                     ELSE NoOp(s))

\* lines 162-362
LeftColumn(s, w, ev, ctype, resp) ==
    Forms([s EXCEPT !.selected_tab = w.mode_selection], ev, ctype, resp)

\* lines 380-384 and 389-393
Loaded(s, got, exchanges) ==
    IF got.df = None THEN Result(s, exchanges, got.errors, FALSE, FALSE)
    ELSE Result(StoreData(s, Get(got.df)), exchanges, <<>>, TRUE, FALSE)

\* lines 364-406
RightColumn(s, w, ev, resp) ==
    IF s.data_source_visible
    THEN IF w.data_source_selection = "Upload data (CSV or Excel file)"
         THEN IF w.uploaded_file = None THEN NoOp(s)
              ELSE Loaded(s, process_user_data(Get(w.uploaded_file)), <<>>)
         ELSE IF w.data_source_selection = "Use pre-loaded data" /\ ev.kind = "load_preloaded"
         THEN Loaded(s, fetch_airtable_data(resp), <<GetRoot(resp)>>)
         ELSE NoOp(s)
    ELSE IF s.current_data # None
         THEN IF ev.kind = "clear_data"
              THEN Result(clear_data(s), <<>>, <<>>, TRUE, FALSE)
              ELSE NoOp(s)
         ELSE Result(s, <<>>, <<"No data loaded">>, FALSE, FALSE)

Join(l, r) == Result(r.s, l.http \o r.http, l.errors \o r.errors, r.rerun, FALSE)

AfterLeft(l, w, ev, resp) ==
    IF l.rerun \/ l.raised THEN l ELSE Join(l, RightColumn(l.s, w, ev, resp))

\* One execution of the script: the left column, then, unless st.rerun() or an
\* exception ended the pass, the right column.
Pass(s, w, ev, ctype, resp) ==
    AfterLeft(LeftColumn(s, w, ev, ctype, resp), w, ev, resp)

Rerun(first, second) ==
    Result(second.s, first.http \o second.http, second.errors, second.rerun, second.raised)

AfterFirst(first, w, ctype, resp) ==
    IF first.rerun THEN Rerun(first, Pass(first.s, w, NoEvent, ctype, resp)) ELSE first

\* The runs one interaction causes: the pass it triggers and, after st.rerun(),
\* a second pass in which no widget is triggered.
Script(s, w, ev, ctype, resp) ==
    AfterFirst(Pass(s, w, ev, ctype, resp), w, ctype, resp)

-----
(* Inputs: what the user types and uploads, what the backend answers *)

Modes == {"Conversation", "Chart Generation"}
DataSources == {"Select an option", "Upload data (CSV or Excel file)", "Use pre-loaded data"}
ChartTypes == {"Bar", "Area", "Pie", "Line", "Scatter"}

\* Questions and chart instructions
Blanks == {<<>>, <<" ", "\t">>}
Asked == <<" ", "q", "?", " ">>

NoResponse == Response(FALSE, 0, FALSE, None, None, None, None, "absent")
Failure(exc, status, json) ==
    Response(exc, status, json, None, Some(<<"d">>), None, None, "absent")
Answer(answer) == Response(FALSE, 200, TRUE, answer, None, None, None, "absent")
Chart(df_final, error) == Response(FALSE, 200, TRUE, None, None, None, df_final, error)
Data(data) == Response(FALSE, 200, TRUE, None, None, data, None, "absent")

\* A submission of the conversation form: <<question, response>>.  A response
\* is drawn only for a question the script sends.
ChatInputs ==
    { <<q, NoResponse>> : q \in Blanks }
    \cup { <<Asked, resp>> : resp \in
             { Answer(Some(<<"4", "2">>)),
               Answer(None),
               Failure(FALSE, 200, FALSE),
               Failure(FALSE, 500, TRUE),
               Failure(TRUE, 0, FALSE) } }

\* df_final lists of the chart endpoint
RowsGood == << << <<"A", "s:x">>, <<"B", "10">> >> >>
RowsError == << << <<"Error", "s:failed">> >> >>
RowsNegative ==
    << << <<"A", "s:x">>, <<"B", "-5">> >>, << <<"A", "s:y">>, <<"B", "10">> >> >>
RowsOneColumn == << << <<"A", "s:x">> >> >>
RowsText == << << <<"A", "s:x">>, <<"B", "s:y">> >> >>

\* A submission of the chart form: <<instruction, chart type, response>>
ChartInputs ==
    { <<b, "Bar", NoResponse>> : b \in Blanks }
    \cup { <<Asked, "Bar", Chart(Some(RowsGood), "absent")>>,
           <<Asked, "Area", Chart(Some(<<>>), "null")>>,
           <<Asked, "Line", Chart(Some(RowsError), "absent")>>,
           <<Asked, "Scatter", Chart(Some(RowsGood), "")>>,
           <<Asked, "Pie", Chart(Some(RowsGood), "null")>>,
           <<Asked, "Pie", Chart(Some(RowsNegative), "absent")>>,
           <<Asked, "Pie", Chart(Some(RowsOneColumn), "absent")>>,
           <<Asked, "Pie", Chart(Some(RowsText), "absent")>>,
           <<Asked, "Bar", Chart(None, "absent")>>,
           <<Asked, "Bar", Chart(Some(RowsGood), "bad instruction")>>,
           <<Asked, "Area", Failure(FALSE, 200, FALSE)>>,
           <<Asked, "Pie", Failure(FALSE, 500, TRUE)>>,
           <<Asked, "Line", Failure(TRUE, 0, FALSE)>> }

\* Responses of GET /
GetResponses ==
    { Data(Some(<< << <<"name", "s:x">>, <<"amount", "10">> >> >>)),
      Data(Some(<< << <<"name", "s:x">>, <<"amount", "1">> >>,
                   << <<"name", "null">> >> >>)),
      Data(None),
      Failure(FALSE, 200, FALSE),
      Failure(FALSE, 500, TRUE),
      Failure(TRUE, 0, FALSE) }

\* Uploaded files with what pd.read_csv / pd.read_excel make of them; the
\* uploader takes "e.CSV" as a csv file, endswith(".csv") does not
Files ==
    { File("a", ".csv", Some(Frame(2, << Col("name", "object", <<"s:x", "nan">>),
                                         Col("amount", "float64", <<"inf", "nan">>) >>))),
      File("b", ".xlsx", Some(Frame(2, << Col("date", "datetime64", <<"d:2024-01-01", "nat">>),
                                          Col("amount", "float64", <<"-inf", "10">>) >>))),
      File("c", ".csv", None),
      File("d", ".xlsx", None),
      File("e", ".CSV", Some(Frame(1, << Col("amount", "float64", <<"1">>) >>))) }

-----------------------------------------------------------------------------
(* The state machine *)

Init ==
    /\ current_data = None
    /\ data_source_visible = TRUE
    /\ chat_history = <<>>
    /\ chart_history = <<>>
    /\ selected_tab = "Chart Generation"
    /\ mode_selection = "Chart Generation"
    /\ data_source_selection = "Select an option"
    /\ uploaded_file = None
    /\ event = Event("start", <<>>, None)
    /\ http = <<>>
    /\ errors = <<>>

Now == Session(current_data, data_source_visible, chat_history, chart_history, selected_tab)

\* What the last pass rendered (the widgets the user can act on)
ChatFormEnabled == current_data # None /\ selected_tab = "Conversation"
ChartFormEnabled == current_data # None /\ selected_tab = "Chart Generation"
PageRaised == ChartFormEnabled /\ RenderRaised(chart_history)
ClearChatShown == ChatFormEnabled /\ Len(chat_history) > 0
PickerShown == ~PageRaised /\ data_source_visible
UploaderShown == PickerShown /\ data_source_selection = "Upload data (CSV or Excel file)"
LoadButtonShown == PickerShown /\ data_source_selection = "Use pre-loaded data"
ClearDataShown == ~PageRaised /\ ~data_source_visible /\ current_data # None

ShownSource(r, w) ==
    IF r.s.data_source_visible /\ ~r.raised THEN w.data_source_selection
    ELSE "Select an option"

\* The session and the widgets after the script has run; a widget the final
\* pass does not render loses its value.
Finish(r, w, ev, maxTurns, maxCharts) ==
    /\ Len(r.s.chat_history) <= maxTurns
    /\ Len(r.s.chart_history) <= maxCharts
    /\ current_data' = r.s.current_data
    /\ data_source_visible' = r.s.data_source_visible
    /\ chat_history' = r.s.chat_history
    /\ chart_history' = r.s.chart_history
    /\ selected_tab' = r.s.selected_tab
    /\ mode_selection' = w.mode_selection
    /\ data_source_selection' = ShownSource(r, w)
    /\ uploaded_file' = IF ShownSource(r, w) = "Upload data (CSV or Excel file)"
                        THEN w.uploaded_file ELSE None
    /\ event' = ev
    /\ http' = r.http
    /\ errors' = r.errors

Run(w, ev, ctype, resp, maxTurns, maxCharts) ==
    Finish(Script(Now, w, ev, ctype, resp), w, ev, maxTurns, maxCharts)

Same == Widgets(mode_selection, data_source_selection, uploaded_file)

SelectMode(maxTurns, maxCharts) ==
    \E m \in Modes \ {mode_selection} :
        Run([Same EXCEPT !.mode_selection = m], Event("select_mode", <<>>, None), "",
            NoResponse, maxTurns, maxCharts)

SubmitChat(maxTurns, maxCharts) ==
    /\ ChatFormEnabled
    /\ \E in \in ChatInputs :
           Run(Same, Event("submit_chat", in[1], None), "", in[2], maxTurns, maxCharts)

ClickClearChat(maxTurns, maxCharts) ==
    /\ ClearChatShown
    /\ Run(Same, Event("clear_chat", <<>>, None), "", NoResponse, maxTurns, maxCharts)

SubmitChart(maxTurns, maxCharts) ==
    /\ ChartFormEnabled
    /\ \E in \in ChartInputs :
           Run(Same, Event("submit_chart", in[1], None), in[2], in[3], maxTurns, maxCharts)

SelectDataSource(maxTurns, maxCharts) ==
    /\ PickerShown
    /\ \E source \in DataSources \ {data_source_selection} :
           Run([Same EXCEPT !.data_source_selection = source, !.uploaded_file = None],
               Event("select_source", <<>>, None), "", NoResponse, maxTurns, maxCharts)

UploadFile(maxTurns, maxCharts) ==
    /\ UploaderShown
    /\ \E f \in Files :
           Run([Same EXCEPT !.uploaded_file = Some(f)], Event("upload", <<>>, Some(f)), "",
               NoResponse, maxTurns, maxCharts)

RemoveFile(maxTurns, maxCharts) ==
    /\ UploaderShown
    /\ uploaded_file # None
    /\ Run([Same EXCEPT !.uploaded_file = None], Event("remove_file", <<>>, None), "",
           NoResponse, maxTurns, maxCharts)

ClickLoadPreloaded(maxTurns, maxCharts) ==
    /\ LoadButtonShown
    /\ \E resp \in GetResponses :
           Run(Same, Event("load_preloaded", <<>>, None), "", resp, maxTurns, maxCharts)

ClickClearData(maxTurns, maxCharts) ==
    /\ ClearDataShown
    /\ Run(Same, Event("clear_data", <<>>, None), "", NoResponse, maxTurns, maxCharts)

Step(maxTurns, maxCharts) ==
    \/ SelectMode(maxTurns, maxCharts)
    \/ SubmitChat(maxTurns, maxCharts)
    \/ ClickClearChat(maxTurns, maxCharts)
    \/ SubmitChart(maxTurns, maxCharts)
    \/ SelectDataSource(maxTurns, maxCharts)
    \/ UploadFile(maxTurns, maxCharts)
    \/ RemoveFile(maxTurns, maxCharts)
    \/ ClickLoadPreloaded(maxTurns, maxCharts)
    \/ ClickClearData(maxTurns, maxCharts)

Next == Step(MaxTurns, MaxCharts)
Spec == Init /\ [][Next]_vars

\* The conversation on its own, long enough for the history to pass the limit
NextChat == Step(MaxLongTurns, 0)
SpecChat == Init /\ [][NextChat]_vars

-----------------------------------------------------------------------------
(* Properties *)

Blank(text) == \A i \in 1..Len(text) : text[i] \in Whitespace
Posts(path) == {i \in 1..Len(http) : http[i].method = "POST" /\ http[i].path = path}
BadCells == NonFinite \cup Missing

\* C1: in every reachable state chat_history alternates user, assistant, user,
\* assistant, ... starting with a user turn, whatever the backend answered.
C1_TurnsAlternate ==
    \A i \in 1..Len(chat_history) :
        chat_history[i].role = IF i % 2 = 1 THEN "user" ELSE "assistant"

\* C2: submitting the conversation form with an empty or whitespace-only
\* question leaves chat_history as it was and sends no request to
\* /userdata_query/.
C2_BlankQuestionIsNoOp ==
    [][(event'.kind = "submit_chat" /\ Blank(event'.text))
         => (chat_history' = chat_history /\ http' = <<>>)]_vars

C2_Witness ==
    /\ event.kind = "submit_chat"
    /\ event.text # <<>>
    /\ Blank(event.text)
    /\ chat_history # <<>>
    /\ http = <<>>

\* C3: every step leaves chart_history unchanged, or appends exactly one entry
\* at its end (only on a chart request answered with HTTP 200 that reports no
\* error: the error field absent, null or empty), or empties it (only on the
\* full data reset).  A chart request that fails stores nothing, and Clear
\* Chat does not touch chart_history.
C3_ChartHistoryFrame ==
    [][\/ chart_history' = chart_history
       \/ /\ Len(chart_history') = Len(chart_history) + 1
          /\ SubSeq(chart_history', 1, Len(chart_history)) = chart_history
          /\ event'.kind = "submit_chart"
          /\ Len(http') = 1
          /\ http'[1].path = "/generate_chart/"
          /\ ~http'[1].resp.exc
          /\ http'[1].resp.status = 200
          /\ http'[1].resp.error \in {"absent", "null", ""}
       \/ /\ chart_history' = <<>>
          /\ event'.kind = "clear_data"]_vars

C3_Witness ==
    /\ Len(chart_history) >= 2
    /\ event.kind = "submit_chart"
    /\ Len(http) = 1
    /\ http[1].resp.status = 200
    /\ http[1].resp.error \in {"absent", "null", ""}
    /\ chat_history # <<>>

\* C4: the picker is visible exactly while no dataset is stored; it is hidden
\* only by a successful load (upload or pre-loaded fetch) and shown again only
\* by the explicit clear, so "picker hidden with no dataset" is never reached.
C4_PickerFollowsData ==
    [][/\ data_source_visible <=> (current_data = None)
       /\ data_source_visible' <=> (current_data' = None)
       /\ (data_source_visible /\ ~data_source_visible')
            => (event'.kind \in {"upload", "load_preloaded"} /\ current_data' # None)
       /\ (current_data = None /\ current_data' # None) => ~data_source_visible'
       /\ (~data_source_visible /\ data_source_visible') => event'.kind = "clear_data"
       /\ event'.kind = "clear_data" => data_source_visible']_vars

C4_Witness ==
    /\ ~data_source_visible
    /\ current_data # None
    /\ event.kind \in {"upload", "load_preloaded"}

\* C5 as stated: each form submit, file upload and button click makes exactly
\* one HTTP call during the rerun it causes.
C5_ExactlyOneCall ==
    event.kind \in {"submit_chat", "submit_chart", "upload", "load_preloaded",
                    "clear_chat", "clear_data"}
        => Len(http) = 1

\* C5 amended: an interaction calls the HTTP client at most once, with no
\* retry after a failure: once for a question or chart instruction that is
\* not blank and for the pre-loaded-data button, and not at all for a blank
\* submission, a file upload, Clear Chat and clear data.
C5_AtMostOneCall ==
    /\ Len(http) <= 1
    /\ Len(http) = 1 <=>
         \/ event.kind \in {"submit_chat", "submit_chart"} /\ ~Blank(event.text)
         \/ event.kind = "load_preloaded"

C5_Witness ==
    /\ event.kind = "submit_chat"
    /\ Len(http) = 1
    /\ http[1].resp.exc

\* C6: the render pass of the chart history never raises: every entry gets a
\* chart, a table or an inline error, and the rest of the page (the clear-data
\* control included) is rendered.
C6_RenderNeverFatal ==
    ChartFormEnabled =>
        /\ Len(RenderCharts(chart_history)) = Len(chart_history)
        /\ \A i \in 1..Len(RenderCharts(chart_history)) :
               ~Raises(RenderCharts(chart_history)[i])
        /\ ClearDataShown

\* C7: a failed data load (an upload with an unsupported extension or that
\* fails to parse, a pre-loaded fetch answered with a non-200 status or a
\* transport exception) changes none of current_data, data_source_visible,
\* chat_history and chart_history, and the dataset stays None.
C7_FailedLoadChangesNothing ==
    [][(\/ /\ event'.kind = "upload"
           /\ \/ Get(event'.file).name[2] \notin {".csv", ".xlsx"}
              \/ Get(event'.file).parsed = None
        \/ /\ event'.kind = "load_preloaded"
           /\ http'[1].resp.exc \/ http'[1].resp.status # 200)
         => /\ current_data' = None
            /\ current_data' = current_data
            /\ data_source_visible' = data_source_visible
            /\ chat_history' = chat_history
            /\ chart_history' = chart_history]_vars

C7_Witness ==
    /\ event.kind = "upload"
    /\ uploaded_file # None
    /\ Get(uploaded_file).name[2] = ".CSV"
    /\ current_data = None
    /\ errors # <<>>

\* C8: the history sent with a question holds at most 10 turns and is the
\* last min(10, n) turns, in order, of the n turns of chat_history once the
\* question is appended; sending never truncates chat_history, which only
\* Clear Chat and clear data empty.
C8_LimitedHistorySent ==
    [][/\ \A x \in Posts("/userdata_query/")' :
            /\ Len(http'[x].history) <= 10
            /\ Len(http'[x].history) =
                   IF Len(chat_history) + 1 < 10 THEN Len(chat_history) + 1 ELSE 10
            /\ \A i \in 1..Len(http'[x].history) :
                   http'[x].history[i] =
                       Append(chat_history, Turn("user", event'.text))
                           [Len(chat_history) + 1 - Len(http'[x].history) + i]
       /\ \/ /\ Len(chat_history') >= Len(chat_history)
             /\ SubSeq(chat_history', 1, Len(chat_history)) = chat_history
          \/ /\ chat_history' = <<>>
             /\ event'.kind \in {"clear_chat", "clear_data"}]_vars

C8_Witness ==
    /\ Len(chat_history) > 10
    /\ Posts("/userdata_query/") # {}
    /\ Len(http[1].history) = 10

\* C9: a stored dataset holds no NaN, no infinity and no missing-value marker,
\* whichever ingestion path produced it, and none is sent in a request.
C9_NoNonFiniteStored ==
    /\ current_data # None => CellsOf(Get(current_data)) \cap BadCells = {}
    /\ \A i \in 1..Len(http) :
           http[i].data # None => CellsOf(Get(http[i].data)) \cap BadCells = {}

\* C10: a POST to /userdata_query/ or /generate_chart/ is made only in a run
\* that starts and ends with a dataset stored, the dataset sent is the stored
\* one, and no chat, chart or Clear Chat interaction changes the dataset.
C10_RequestsCarryStoredData ==
    [][/\ \A i \in 1..Len(http') :
            http'[i].method = "POST" =>
                /\ current_data # None
                /\ http'[i].data = current_data
                /\ http'[i].data = current_data'
       /\ event'.kind \in {"submit_chat", "submit_chart", "clear_chat"}
            => current_data' = current_data]_vars

C10_Witness ==
    /\ event.kind = "submit_chat"
    /\ Posts("/userdata_query/") # {}
    /\ http[1].data = current_data
    /\ current_data # None
    /\ chart_history # <<>>

====
